---- MODULE Spec2Model ----
(***************************************************************************)
(* Sales-tax nexus and tax-obligation engine of main.py.                   *)
(*                                                                         *)
(* Representation.                                                         *)
(*   - A Python str is a TLA+ string; Text gives its characters, so that   *)
(*     lower(), upper(), title(), the `in` substring test and the sort     *)
(*     order of group keys are computed character by character.            *)
(*   - Money is an integer number of currency units.  A rate is an integer *)
(*     number of basis points: 0.0725 is 725.  Tax amounts are therefore   *)
(*     carried in ten-thousandths of a currency unit.                      *)
(*   - A quotient (the weighted average local rate) is an exact fraction   *)
(*     [num, den] in lowest terms; the floating point rounding of the      *)
(*     program is not modelled.                                            *)
(*   - A Python dict is [keys, val]: the keys in insertion order and the   *)
(*     mapping.                                                            *)
(***************************************************************************)
EXTENDS Integers, Sequences, FiniteSets, TLC

VARIABLES pc, df, amount_cols, state_cols, city_cols, product_cols,
          nexus_analysis, tax_obligations, compliance_status,
          filing_requirements, result, sheet_names,
          description, category

vars == <<pc, df, amount_cols, state_cols, city_cols, product_cols,
          nexus_analysis, tax_obligations, compliance_status,
          filing_requirements, result, sheet_names, description, category>>

(***************************************************************************)
(* Bounds of the model.                                                    *)
(***************************************************************************)
\* rows in an uploaded dataset
MaxRecords == 2
\* words in a description handed to classify_product
MaxWords == 2

(***************************************************************************)
(* Strings.                                                                *)
(***************************************************************************)
\* the characters of every str the model handles
Text ==
       ("State" :> <<"S", "t", "a", "t", "e">>)
    @@ ("City" :> <<"C", "i", "t", "y">>)
    @@ ("Product" :> <<"P", "r", "o", "d", "u", "c", "t">>)
    @@ ("Amount" :> <<"A", "m", "o", "u", "n", "t">>)
    @@ ("product_type" :> <<"p", "r", "o", "d", "u", "c", "t", "_", "t", "y", "p", "e">>)
    @@ ("CA" :> <<"C", "A">>)
    @@ ("ca" :> <<"c", "a">>)
    @@ ("FL" :> <<"F", "L">>)
    @@ ("DE" :> <<"D", "E">>)
    @@ ("ZZ" :> <<"Z", "Z">>)
    @@ ("los angeles" :> <<"l", "o", "s", " ", "a", "n", "g", "e", "l", "e", "s">>)
    @@ ("Los Angeles" :> <<"L", "o", "s", " ", "A", "n", "g", "e", "l", "e", "s">>)
    @@ ("Miami" :> <<"M", "i", "a", "m", "i">>)
    @@ ("Widget" :> <<"W", "i", "d", "g", "e", "t">>)
    @@ ("SaaS Platform" :> <<"S", "a", "a", "S", " ", "P", "l", "a", "t", "f", "o", "r", "m">>)
    @@ ("Custom Development Package" :> <<"C", "u", "s", "t", "o", "m", " ", "D", "e", "v", "e", "l", "o", "p", "m", "e", "n", "t", " ", "P", "a", "c", "k", "a", "g", "e">>)
    @@ ("software" :> <<"s", "o", "f", "t", "w", "a", "r", "e">>)
    @@ ("saas" :> <<"s", "a", "a", "s">>)
    @@ ("physical_goods" :> <<"p", "h", "y", "s", "i", "c", "a", "l", "_", "g", "o", "o", "d", "s">>)
    @@ ("consulting" :> <<"c", "o", "n", "s", "u", "l", "t", "i", "n", "g">>)
    @@ ("Region" :> <<"R", "e", "g", "i", "o", "n">>)
    @@ ("Total" :> <<"T", "o", "t", "a", "l">>)
    @@ ("Municipality" :> <<"M", "u", "n", "i", "c", "i", "p", "a", "l", "i", "t", "y">>)
    @@ ("Item" :> <<"I", "t", "e", "m">>)
    @@ ("source_sheet" :> <<"s", "o", "u", "r", "c", "e", "_", "s", "h", "e", "e", "t">>)

\* ord(c)
CodePoint ==
    (" " :> 32) @@ ("A" :> 65) @@ ("B" :> 66) @@ ("C" :> 67) @@ ("D" :> 68) @@ ("E" :> 69)
    @@ ("F" :> 70) @@ ("G" :> 71) @@ ("H" :> 72) @@ ("I" :> 73) @@ ("J" :> 74) @@ ("K" :> 75)
    @@ ("L" :> 76) @@ ("M" :> 77) @@ ("N" :> 78) @@ ("O" :> 79) @@ ("P" :> 80) @@ ("Q" :> 81)
    @@ ("R" :> 82) @@ ("S" :> 83) @@ ("T" :> 84) @@ ("U" :> 85) @@ ("V" :> 86) @@ ("W" :> 87)
    @@ ("X" :> 88) @@ ("Y" :> 89) @@ ("Z" :> 90) @@ ("_" :> 95) @@ ("a" :> 97) @@ ("b" :> 98)
    @@ ("c" :> 99) @@ ("d" :> 100) @@ ("e" :> 101) @@ ("f" :> 102) @@ ("g" :> 103) @@ ("h" :> 104)
    @@ ("i" :> 105) @@ ("j" :> 106) @@ ("k" :> 107) @@ ("l" :> 108) @@ ("m" :> 109) @@ ("n" :> 110)
    @@ ("o" :> 111) @@ ("p" :> 112) @@ ("q" :> 113) @@ ("r" :> 114) @@ ("s" :> 115) @@ ("t" :> 116)
    @@ ("u" :> 117) @@ ("v" :> 118) @@ ("w" :> 119) @@ ("x" :> 120) @@ ("y" :> 121) @@ ("z" :> 122)

\* the cased letters
ToLower ==
    ("A" :> "a") @@ ("B" :> "b") @@ ("C" :> "c") @@ ("D" :> "d") @@ ("E" :> "e") @@ ("F" :> "f")
    @@ ("G" :> "g") @@ ("H" :> "h") @@ ("I" :> "i") @@ ("J" :> "j") @@ ("K" :> "k") @@ ("L" :> "l")
    @@ ("M" :> "m") @@ ("N" :> "n") @@ ("O" :> "o") @@ ("P" :> "p") @@ ("Q" :> "q") @@ ("R" :> "r")
    @@ ("S" :> "s") @@ ("T" :> "t") @@ ("U" :> "u") @@ ("V" :> "v") @@ ("W" :> "w") @@ ("X" :> "x")
    @@ ("Y" :> "y") @@ ("Z" :> "z")

ToUpper ==
    ("a" :> "A") @@ ("b" :> "B") @@ ("c" :> "C") @@ ("d" :> "D") @@ ("e" :> "E") @@ ("f" :> "F")
    @@ ("g" :> "G") @@ ("h" :> "H") @@ ("i" :> "I") @@ ("j" :> "J") @@ ("k" :> "K") @@ ("l" :> "L")
    @@ ("m" :> "M") @@ ("n" :> "N") @@ ("o" :> "O") @@ ("p" :> "P") @@ ("q" :> "Q") @@ ("r" :> "R")
    @@ ("s" :> "S") @@ ("t" :> "T") @@ ("u" :> "U") @@ ("v" :> "V") @@ ("w" :> "W") @@ ("x" :> "X")
    @@ ("y" :> "Y") @@ ("z" :> "Z")

(***************************************************************************)
(* str methods, character by character.                                    *)
(***************************************************************************)
IsUpperChar(c) == c \in DOMAIN ToLower
IsLowerChar(c) == c \in DOMAIN ToUpper
IsAlphaChar(c) == IsUpperChar(c) \/ IsLowerChar(c)

\* str.lower()
LowerChars(s) ==
    [i \in 1..Len(s) |-> IF IsUpperChar(s[i]) THEN ToLower[s[i]] ELSE s[i]]

\* str.upper()
UpperChars(s) ==
    [i \in 1..Len(s) |-> IF IsLowerChar(s[i]) THEN ToUpper[s[i]] ELSE s[i]]

\* str.title(): a letter that follows a non-letter is upper-cased, every
\* other letter is lower-cased
TitleChars(s) ==
    [i \in 1..Len(s) |->
        IF i = 1 \/ ~IsAlphaChar(s[i - 1])
        THEN (IF IsLowerChar(s[i]) THEN ToUpper[s[i]] ELSE s[i])
        ELSE (IF IsUpperChar(s[i]) THEN ToLower[s[i]] ELSE s[i])]

\* `kw in s` on str: kw occurs as a contiguous substring of s
Contains(kw, s) ==
    \E i \in 1..(Len(s) - Len(kw) + 1) : SubSeq(s, i, i + Len(kw) - 1) = kw

\* any(keyword in s for keyword in keywords)
AnyKeywordIn(keywords, s) ==
    \E k \in 1..Len(keywords) : Contains(keywords[k], s)

\* a < b on str: lexicographic by code point
CharsLess(a, b) ==
    \E i \in 1..Len(a) + 1 :
        /\ \A j \in 1..(i - 1) : j <= Len(b) /\ a[j] = b[j]
        /\ \/ i = Len(a) + 1 /\ Len(b) >= i
           \/ i <= Len(a) /\ i <= Len(b) /\ CodePoint[a[i]] < CodePoint[b[i]]

\* the str whose characters are cs
Intern(cs) == CHOOSE s \in DOMAIN Text : Text[s] = cs

\* str(code).upper(), str(name).title() and a < b on the model's strs
Upper(s) == Intern(UpperChars(Text[s]))
Title(s) == Intern(TitleChars(Text[s]))
StrLess(a, b) == CharsLess(Text[a], Text[b])

(***************************************************************************)
(* The keyword lists of classify_product and of the column inference, and   *)
(* the words descriptions are made of.                                     *)
(***************************************************************************)
SOFTWARE_KEYWORDS ==
    << <<"s", "o", "f", "t", "w", "a", "r", "e">>,
       <<"l", "i", "c", "e", "n", "s", "e">>,
       <<"a", "p", "p">> >>

SAAS_KEYWORDS ==
    << <<"s", "a", "a", "s">>,
       <<"s", "u", "b", "s", "c", "r", "i", "p", "t", "i", "o", "n">>,
       <<"s", "e", "r", "v", "i", "c", "e">>,
       <<"p", "l", "a", "t", "f", "o", "r", "m">> >>

CONSULTING_KEYWORDS ==
    << <<"c", "o", "n", "s", "u", "l", "t", "i", "n", "g">>,
       <<"d", "e", "v", "e", "l", "o", "p", "m", "e", "n", "t">>,
       <<"c", "u", "s", "t", "o", "m">>,
       <<"p", "r", "o", "f", "e", "s", "s", "i", "o", "n", "a", "l">> >>

AMOUNT_KEYWORDS ==
    << <<"a", "m", "o", "u", "n", "t">>,
       <<"t", "o", "t", "a", "l">>,
       <<"p", "r", "i", "c", "e">>,
       <<"s", "a", "l", "e", "s">>,
       <<"r", "e", "v", "e", "n", "u", "e">> >>

STATE_KEYWORDS ==
    << <<"s", "t", "a", "t", "e">>,
       <<"r", "e", "g", "i", "o", "n">>,
       <<"l", "o", "c", "a", "t", "i", "o", "n">> >>

CITY_KEYWORDS ==
    << <<"c", "i", "t", "y">>,
       <<"m", "u", "n", "i", "c", "i", "p", "a", "l", "i", "t", "y">> >>

PRODUCT_KEYWORDS ==
    << <<"p", "r", "o", "d", "u", "c", "t">>,
       <<"i", "t", "e", "m">>,
       <<"d", "e", "s", "c", "r", "i", "p", "t", "i", "o", "n">>,
       <<"t", "y", "p", "e">>,
       <<"c", "a", "t", "e", "g", "o", "r", "y">> >>

Words ==
    << <<"C", "u", "s", "t", "o", "m">>,
       <<"D", "E", "V", "E", "L", "O", "P", "M", "E", "N", "T">>,
       <<"P", "a", "c", "k", "a", "g", "e">>,
       <<"A", "p", "p">>,
       <<"h", "a", "p", "p", "y">>,
       <<"S", "a", "a", "S">>,
       <<"S", "e", "r", "v", "i", "c", "e">>,
       <<"l", "i", "c", "e", "n", "s", "e">>,
       <<"P", "r", "o", "f", "e", "s", "s", "i", "o", "n", "a", "l">>,
       <<"W", "i", "d", "g", "e", "t">>,
       <<"S", "u", "b", "s", "c", "r", "i", "p", "t", "i", "o", "n">>,
       <<"S", "O", "F", "T", "W", "A", "R", "E">>,
       <<"C", "o", "n", "s", "u", "l", "t", "i", "n", "g">>,
       <<"p", "l", "a", "t", "f", "o", "r", "m">> >>

(***************************************************************************)
(* Python values of a description cell.                                    *)
(***************************************************************************)
Str(cs) == [type |-> "str", chars |-> cs]
None == [type |-> "NoneType", chars |-> <<>>]
\* the float nan that pandas stores for an empty cell
NaN == [type |-> "float", chars |-> <<>>]

\* `not v`: None and "" are falsy, nan and every other str are truthy
Falsy(v) == v.type = "NoneType" \/ (v.type = "str" /\ v.chars = <<>>)

(***************************************************************************)
(* Reference tables (the entries of the jurisdictions the model feeds in). *)
(***************************************************************************)
ProductTypes == {"software", "saas", "physical_goods", "consulting"}

PRODUCT_TAX_RULES ==
    [software |->
        [CA |-> [taxable |-> TRUE], FL |-> [taxable |-> TRUE]],
     saas |->
        [CA |-> [taxable |-> TRUE], FL |-> [taxable |-> FALSE]],
     physical_goods |->
        [CA |-> [taxable |-> TRUE], FL |-> [taxable |-> TRUE]],
     consulting |->
        [CA |-> [taxable |-> FALSE], FL |-> [taxable |-> FALSE]]]

LOCAL_TAX_RATES ==
    [CA |-> ("Los Angeles" :> [city |-> 50, county |-> 25, district |-> 75]),
     FL |-> ("Miami" :> [city |-> 75, county |-> 75, district |-> 10])]

US_STATES ==
    [CA |-> [name |-> "California", rate |-> 725, nexus_threshold |-> 500000],
     DE |-> [name |-> "Delaware", rate |-> 0, nexus_threshold |-> 0],
     FL |-> [name |-> "Florida", rate |-> 600, nexus_threshold |-> 100000]]

(***************************************************************************)
(* Exact fractions.                                                        *)
(***************************************************************************)
Abs(x) == IF x < 0 THEN -x ELSE x

RECURSIVE Gcd(_, _)
Gcd(a, b) == IF b = 0 THEN a ELSE Gcd(b, a % b)

\* n / d in lowest terms, d > 0
Frac(n, d) ==
    LET g == Gcd(Abs(n), d)
    IN  [num |-> n \div g, den |-> d \div g]

FracOfInt(n) == [num |-> n, den |-> 1]
FracAdd(a, b) == Frac(a.num * b.den + b.num * a.den, a.den * b.den)
\* n * f for an integer n
FracScale(n, f) ==
    LET g == Gcd(Abs(n), f.den)
    IN  Frac((n \div g) * f.num, f.den \div g)
FracLeq(a, b) == a.num * b.den <= b.num * a.den

(***************************************************************************)
(* Python dicts: keys in insertion order, and the mapping.                 *)
(***************************************************************************)
EmptyDict == [keys |-> <<>>, val |-> <<>>]
InDict(k, d) == k \in DOMAIN d.val
\* d[k] = v
DictSet(d, k, v) ==
    [keys |-> IF InDict(k, d) THEN d.keys ELSE Append(d.keys, k),
     val |-> (k :> v) @@ d.val]

(***************************************************************************)
(* classify_product, is_product_taxable, get_local_tax_rates               *)
(***************************************************************************)
\* what the call ends in when .lower() is looked up on a float
AttributeError == "AttributeError"

classify_product(product_description) ==
    IF Falsy(product_description) THEN "physical_goods"
    ELSE IF product_description.type # "str" THEN AttributeError
    ELSE LET product_lower == LowerChars(product_description.chars)
         IN  IF AnyKeywordIn(SOFTWARE_KEYWORDS, product_lower) THEN "software"
             ELSE IF AnyKeywordIn(SAAS_KEYWORDS, product_lower) THEN "saas"
             ELSE IF AnyKeywordIn(CONSULTING_KEYWORDS, product_lower) THEN "consulting"
             ELSE "physical_goods"

\* is_product_taxable with the default returned for every pair
AlwaysTaxable(product_type, state_code) == TRUE

is_product_taxable(product_type, state_code) ==
    IF /\ product_type \in DOMAIN PRODUCT_TAX_RULES
       /\ state_code \in DOMAIN PRODUCT_TAX_RULES[product_type]
    THEN PRODUCT_TAX_RULES[product_type][state_code].taxable
    ELSE TRUE

get_local_tax_rates(state_code, city_name) ==
    IF /\ state_code \in DOMAIN LOCAL_TAX_RATES
       /\ city_name \in DOMAIN LOCAL_TAX_RATES[state_code]
    THEN LET local_rates == LOCAL_TAX_RATES[state_code][city_name]
         IN  [city_rate |-> local_rates.city,
              county_rate |-> local_rates.county,
              district_rate |-> local_rates.district,
              total_local_rate |->
                  local_rates.city + local_rates.county + local_rates.district]
    ELSE [city_rate |-> 0, county_rate |-> 0, district_rate |-> 0,
          total_local_rate |-> 0]

(***************************************************************************)
(* The uploaded dataset: a DataFrame is [columns, rows], each row a        *)
(* mapping from column name to cell.                                       *)
(***************************************************************************)
\* the cell pandas holds for an empty field of a text column (float nan)
NaNCell == "nan"

\* the cells each column of an upload draws from, in index order
CellValues ==
    [State |-> <<"CA", "DE", "FL", "ZZ", "ca">>,
     City |-> <<"Miami", "los angeles">>,
     Product |-> <<"SaaS Platform", "Custom Development Package", NaNCell>>,
     Amount |-> <<-250000, 250000, 500000>>,
     Region |-> <<"FL">>,
     Total |-> <<250000, 500000>>,
     Municipality |-> <<"Miami">>,
     Item |-> <<"Widget">>,
     product_type |-> <<"saas", "Widget">>]

\* the headers of the uploads: every role resolved or not, a role matched
\* by two columns, and an upload that has a product_type column of its own
Layouts ==
    { <<"State", "Amount">>,
      <<"State", "City", "Amount">>,
      <<"State", "Product", "Amount">>,
      <<"State", "City", "Product", "Amount">>,
      <<"City", "Product">>,
      <<"State", "City">>,
      <<"Product", "Amount">>,
      <<"State", "Amount", "Region", "Total">>,
      <<"State", "City", "Amount", "Municipality">>,
      <<"State", "Product", "Amount", "Item">>,
      <<"State", "product_type", "Amount">> }

\* the headers of the sheets of a workbook, and the sheets of a workbook
ExcelLayouts ==
    { <<"State", "Amount">>,
      <<"State", "Product", "Amount">> }
Workbooks == { <<"Sheet1">>, <<"Sheet1", "Sheet2">> }

Range(s) == {s[i] : i \in DOMAIN s}
ColumnIndex(columns, col) == CHOOSE k \in DOMAIN columns : columns[k] = col

RECURSIVE RowCount(_)
RowCount(columns) ==
    IF columns = <<>> THEN 1
    ELSE Len(CellValues[Head(columns)]) * RowCount(Tail(columns))

\* mixed-radix digits of n, one per column
RECURSIVE Digits(_, _)
Digits(columns, n) ==
    IF columns = <<>> THEN <<>>
    ELSE LET base == Len(CellValues[Head(columns)])
         IN  <<n % base>> \o Digits(Tail(columns), n \div base)

\* the n-th row over these columns
RowAt(columns, n) ==
    LET d == Digits(columns, n)
    IN  [col \in Range(columns) |->
            CellValues[col][d[ColumnIndex(columns, col)] + 1]]

\* row numbers in non-decreasing order
Sorted(picks) == \A i \in 1..(Len(picks) - 1) : picks[i] <= picks[i + 1]

\* the dataset over these columns whose rows are numbered by picks
Frame(columns, picks) ==
    [columns |-> columns,
     rows |-> [i \in 1..Len(picks) |-> RowAt(columns, picks[i])]]

\* `col in df.columns`
HasColumn(frame, col) == col \in Range(frame.columns)

\* [col for col in df.columns if any(keyword in col.lower() for keyword in keywords)]
MatchingColumns(columns, keywords) ==
    SelectSeq(columns, LAMBDA col : AnyKeywordIn(keywords, LowerChars(Text[col])))

(***************************************************************************)
(* df.groupby(by)[amount_col].sum(): one item per distinct key, in sorted  *)
(* key order.  A key is the tuple of the row's cells in the `by` columns;  *)
(* grouping by a single column name gives scalar keys, modelled as         *)
(* 1-tuples.                                                               *)
(***************************************************************************)
KeyOf(row, by) == [k \in 1..Len(by) |-> row[by[k]]]

KeyLess(a, b) ==
    \E i \in 1..Len(a) :
        /\ \A j \in 1..(i - 1) : a[j] = b[j]
        /\ StrLess(a[i], b[i])

RECURSIVE SortKeys(_)
SortKeys(S) ==
    IF S = {} THEN <<>>
    ELSE LET m == CHOOSE x \in S : \A y \in S \ {x} : KeyLess(x, y)
         IN  <<m>> \o SortKeys(S \ {m})

RECURSIVE SumWhere(_, _, _, _)
SumWhere(rows, by, key, amount_col) ==
    IF rows = <<>> THEN 0
    ELSE (IF KeyOf(Head(rows), by) = key THEN Head(rows)[amount_col] ELSE 0)
         + SumWhere(Tail(rows), by, key, amount_col)

GroupBySum(frame, by, amount_col) ==
    LET keys == SortKeys({KeyOf(frame.rows[i], by) : i \in DOMAIN frame.rows})
    IN  [g \in 1..Len(keys) |->
            [key |-> keys[g],
             value |-> SumWhere(frame.rows, by, keys[g], amount_col)]]

Max(a, b) == IF a >= b THEN a ELSE b

(***************************************************************************)
(* analyze_nexus_threshold                                                 *)
(***************************************************************************)
\* the first loop: roll the groups up into state_totals and
\* local_tax_details
RECURSIVE NexusRollUp(_, _, _)
NexusRollUp(grouped_sales, state_totals, local_tax_details) ==
    IF grouped_sales = <<>>
    THEN [state_totals |-> state_totals, local_tax_details |-> local_tax_details]
    ELSE
      LET key == Head(grouped_sales).key
          sales_amount == Head(grouped_sales).value
      IN
        IF Len(key) > 1   \* isinstance(key, tuple): state and city
        THEN
          LET state_code == Upper(key[1])
              city_name == Title(key[2])
              totals0 == IF InDict(state_code, state_totals) THEN state_totals
                         ELSE DictSet(state_totals, state_code, 0)
              details0 == IF InDict(state_code, state_totals) THEN local_tax_details
                          ELSE DictSet(local_tax_details, state_code, <<>>)
              local_rates == get_local_tax_rates(state_code, city_name)
          IN  NexusRollUp(
                Tail(grouped_sales),
                DictSet(totals0, state_code,
                        totals0.val[state_code] + sales_amount),
                DictSet(details0, state_code,
                        Append(details0.val[state_code],
                               [city |-> city_name,
                                sales |-> sales_amount,
                                local_rates |-> local_rates])))
        ELSE              \* just state
          LET state_code == Upper(key[1])
          IN  NexusRollUp(
                Tail(grouped_sales),
                DictSet(state_totals, state_code, sales_amount),
                DictSet(local_tax_details, state_code, <<>>))

\* WeightedRateSum without the weights
RECURSIVE UnweightedRateSum(_)
UnweightedRateSum(city_breakdown) ==
    IF city_breakdown = <<>> THEN 0
    ELSE Head(city_breakdown).local_rates.total_local_rate
         + UnweightedRateSum(Tail(city_breakdown))

\* total_local_rate after the loop over city_breakdown
RECURSIVE WeightedRateSum(_)
WeightedRateSum(city_breakdown) ==
    IF city_breakdown = <<>> THEN 0
    ELSE Head(city_breakdown).local_rates.total_local_rate * Head(city_breakdown).sales
         + WeightedRateSum(Tail(city_breakdown))

\* total_local_sales after the loop over city_breakdown
RECURSIVE SalesSum(_)
SalesSum(city_breakdown) ==
    IF city_breakdown = <<>> THEN 0
    ELSE Head(city_breakdown).sales + SalesSum(Tail(city_breakdown))

\* total_local_rate / total_local_sales if total_local_sales > 0 else 0
AvgLocalRate(total_local_rate, total_local_sales) ==
    IF total_local_sales > 0 THEN Frac(total_local_rate, total_local_sales)
    ELSE FracOfInt(0)

\* CompositeLocalRate as the plain mean of the localities' rates
UnweightedMeanLocalRate(city_breakdown) ==
    IF city_breakdown = <<>> THEN FracOfInt(0)
    ELSE Frac(UnweightedRateSum(city_breakdown), Len(city_breakdown))

\* the weighted average over the state's city_breakdown
CompositeLocalRate(city_breakdown) ==
    AvgLocalRate(WeightedRateSum(city_breakdown), SalesSum(city_breakdown))

\* HasNexus without the zero-threshold guard
HasNexusUnguarded(total_sales, threshold) == total_sales >= threshold

\* total_sales >= threshold if threshold > 0 else False
HasNexus(total_sales, threshold) ==
    IF threshold > 0 THEN total_sales >= threshold ELSE FALSE

\* ExcessAmount without the zero-threshold guard
ExcessAmountUnguarded(total_sales, threshold) == Max(0, total_sales - threshold)

\* max(0, total_sales - threshold) if threshold > 0 else 0
ExcessAmount(total_sales, threshold) ==
    IF threshold > 0 THEN Max(0, total_sales - threshold) ELSE 0

\* the body of the second loop: the entry of one recognised state
NexusEntry(state_code, total_sales, city_breakdown) ==
    LET threshold == US_STATES[state_code].nexus_threshold
        avg_local_rate == CompositeLocalRate(city_breakdown)
    IN  [state_name |-> US_STATES[state_code].name,
         total_sales |-> total_sales,
         nexus_threshold |-> threshold,
         has_nexus |-> HasNexus(total_sales, threshold),
         excess_amount |-> ExcessAmount(total_sales, threshold),
         state_tax_rate |-> US_STATES[state_code].rate,
         avg_local_tax_rate |-> avg_local_rate,
         combined_tax_rate |->
             FracAdd(FracOfInt(US_STATES[state_code].rate), avg_local_rate),
         city_breakdown |-> city_breakdown]

analyze_nexus_threshold(frame, amount_columns, state_columns, city_columns) ==
    IF state_columns = <<>> \/ amount_columns = <<>> THEN EmptyDict
    ELSE
      LET state_col == state_columns[1]
          amount_col == amount_columns[1]
          by == IF city_columns # <<>> /\ HasColumn(frame, city_columns[1])
                THEN <<state_col, city_columns[1]>>
                ELSE <<state_col>>
          grouped_sales ==
              IF HasColumn(frame, state_col) /\ HasColumn(frame, amount_col)
              THEN GroupBySum(frame, by, amount_col)
              ELSE <<>>
          rolled == NexusRollUp(grouped_sales, EmptyDict, EmptyDict)
          state_totals == rolled.state_totals
          local_tax_details == rolled.local_tax_details
          recognised == SelectSeq(state_totals.keys,
                                  LAMBDA state_code : state_code \in DOMAIN US_STATES)
      IN  [keys |-> recognised,
           val |-> [state_code \in Range(recognised) |->
                      NexusEntry(state_code,
                                 state_totals.val[state_code],
                                 local_tax_details.val[state_code])]]

(***************************************************************************)
(* calculate_tax_obligations_by_product                                    *)
(***************************************************************************)
\* the Python value of a cell of a text column
CellValue(cell) == IF cell = NaNCell THEN NaN ELSE Str(Text[cell])

\* df['product_type'] = series: the column is replaced in place, or
\* appended when the frame has none of that name
AssignColumn(frame, col, series) ==
    [columns |-> IF HasColumn(frame, col) THEN frame.columns
                 ELSE Append(frame.columns, col),
     rows |-> [i \in DOMAIN frame.rows |-> (col :> series[i]) @@ frame.rows[i]]]

\* the classification step; df[product_col].apply(classify_product) raises
\* when classify_product does
ClassifiedTypes(frame, product_columns) ==
    IF product_columns # <<>> /\ HasColumn(frame, product_columns[1])
    THEN [i \in DOMAIN frame.rows |->
             classify_product(CellValue(frame.rows[i][product_columns[1]]))]
    ELSE [i \in DOMAIN frame.rows |-> "physical_goods"]

NewStateDetails ==
    [total_sales |-> 0, taxable_sales |-> 0, state_tax_owed |-> 0,
     local_tax_owed |-> 0, product_breakdown |-> EmptyDict, city_breakdown |-> <<>>]

NewProductEntry(is_taxable) ==
    [total_sales |-> 0, taxable_sales |-> 0, tax_owed |-> 0, is_taxable |-> is_taxable]

\* TotalSalesAfter with = in place of +=
TotalSalesOverwritten(total_sales, sales_amount) == sales_amount

\* state_details[state_code]['total_sales'] += sales_amount
TotalSalesAfter(total_sales, sales_amount) == total_sales + sales_amount

\* one pass of the loop over grouped_sales: the state's details after the
\* group (state_code, city_name, product_type, sales_amount); city_name is
\* "" when the groups carry no city (None in the program)
\* a category's tax on a group without the local part
ProductTaxStateOnly(state_tax, local_tax, with_city) == state_tax

\* product_tax of a taxable group: the state tax, plus the local tax when
\* the group has a locality
ProductTax(state_tax, local_tax, with_city) ==
    state_tax + (IF with_city THEN local_tax ELSE 0)

TaxGroupStep(details, state_code, city_name, product_type, sales_amount) ==
    LET is_taxable == is_product_taxable(product_type, state_code)
        known == state_code \in DOMAIN US_STATES
        state_tax == sales_amount * US_STATES[state_code].rate
        local_rates == get_local_tax_rates(state_code, city_name)
        local_tax == sales_amount * local_rates.total_local_rate
        taxed == is_taxable /\ known
        with_city == taxed /\ city_name # ""
        breakdown0 ==
            IF InDict(product_type, details.product_breakdown)
            THEN details.product_breakdown
            ELSE DictSet(details.product_breakdown, product_type,
                         NewProductEntry(is_taxable))
        entry0 == breakdown0.val[product_type]
        product_tax == IF taxed THEN ProductTax(state_tax, local_tax, with_city)
                       ELSE 0
        entry1 ==
            [entry0 EXCEPT
                !.total_sales = @ + sales_amount,
                !.taxable_sales = IF is_taxable THEN @ + sales_amount ELSE @,
                !.tax_owed = IF taxed THEN @ + product_tax ELSE @]
    IN  [total_sales |-> TotalSalesAfter(details.total_sales, sales_amount),
         taxable_sales |->
             IF is_taxable THEN details.taxable_sales + sales_amount
             ELSE details.taxable_sales,
         state_tax_owed |->
             IF taxed THEN details.state_tax_owed + state_tax
             ELSE details.state_tax_owed,
         local_tax_owed |->
             IF with_city THEN details.local_tax_owed + local_tax
             ELSE details.local_tax_owed,
         product_breakdown |-> DictSet(breakdown0, product_type, entry1),
         city_breakdown |->
             IF with_city
             THEN Append(details.city_breakdown,
                         [city |-> city_name,
                          product_type |-> product_type,
                          sales |-> sales_amount,
                          taxable |-> is_taxable,
                          state_tax |-> state_tax,
                          local_tax |-> local_tax,
                          local_rates |-> local_rates])
             ELSE details.city_breakdown]

\* the loop over grouped_sales
RECURSIVE TaxRollUp(_, _)
TaxRollUp(grouped_sales, state_details) ==
    IF grouped_sales = <<>> THEN state_details
    ELSE
      LET key == Head(grouped_sales).key
          sales_amount == Head(grouped_sales).value
          state_code == Upper(key[1])
          city_name == IF Len(key) = 3 THEN Title(key[2]) ELSE ""
          product_type == key[Len(key)]
          details0 == IF InDict(state_code, state_details)
                      THEN state_details.val[state_code]
                      ELSE NewStateDetails
      IN  TaxRollUp(
            Tail(grouped_sales),
            DictSet(state_details, state_code,
                    TaxGroupStep(details0, state_code, city_name,
                                 product_type, sales_amount)))

\* the entry of one recognised state in the final results
TaxEntry(state_code, details) ==
    [state_name |-> US_STATES[state_code].name,
     total_sales |-> details.total_sales,
     taxable_sales |-> details.taxable_sales,
     non_taxable_sales |-> details.total_sales - details.taxable_sales,
     state_tax_rate |-> US_STATES[state_code].rate,
     state_tax_owed |-> details.state_tax_owed,
     local_tax_owed |-> details.local_tax_owed,
     total_tax_owed |-> details.state_tax_owed + details.local_tax_owed,
     product_breakdown |-> details.product_breakdown,
     city_breakdown |-> details.city_breakdown]

\* [raised, frame, tax_obligations]: whether the call raised, the frame it
\* leaves behind (it adds the product_type column) and what it returns
calculate_tax_obligations_by_product(frame, amount_columns, state_columns, city_columns, product_columns) ==
    IF state_columns = <<>> \/ amount_columns = <<>>
    THEN [raised |-> FALSE, frame |-> frame, tax_obligations |-> EmptyDict]
    ELSE
      LET state_col == state_columns[1]
          amount_col == amount_columns[1]
          types == ClassifiedTypes(frame, product_columns)
          frame1 == AssignColumn(frame, "product_type", types)
          with_city == city_columns # <<>> /\ HasColumn(frame1, city_columns[1])
          group_cols == IF with_city
                        THEN <<state_col, city_columns[1], "product_type">>
                        ELSE <<state_col, "product_type">>
          grouped_sales ==
              IF \A k \in DOMAIN group_cols : HasColumn(frame1, group_cols[k])
              THEN GroupBySum(frame1, group_cols, amount_col)
              ELSE <<>>
          state_details == TaxRollUp(grouped_sales, EmptyDict)
          recognised == SelectSeq(state_details.keys,
                                  LAMBDA state_code : state_code \in DOMAIN US_STATES)
      IN  IF \E i \in DOMAIN types : types[i] = AttributeError
          THEN [raised |-> TRUE, frame |-> frame, tax_obligations |-> EmptyDict]
          ELSE [raised |-> FALSE,
                frame |-> frame1,
                tax_obligations |->
                    [keys |-> recognised,
                     val |-> [state_code \in Range(recognised) |->
                                TaxEntry(state_code,
                                         state_details.val[state_code])]]]

(***************************************************************************)
(* check_compliance_status, generate_filing_requirements                   *)
(***************************************************************************)
\* len([state for state, data in nexus.items() if data['has_nexus']])
NexusStateCount(nexus) ==
    Len(SelectSeq(nexus.keys, LAMBDA state : nexus.val[state].has_nexus))

check_compliance_status(nexus) ==
    [total_states |-> Len(nexus.keys),
     nexus_states |-> NexusStateCount(nexus),
     registered_states |-> 0,
     non_compliant_states |-> NexusStateCount(nexus),
     compliance_percentage |-> 0]

\* FilingRequired without the has_nexus test
FilingRequiredByThreshold(data) == data.nexus_threshold > 0

\* data['has_nexus'] and data['nexus_threshold'] > 0
FilingRequired(data) == data.has_nexus /\ data.nexus_threshold > 0

\* FilingFrequency with the tiers starting at the boundary values
FilingFrequencyInclusive(total_sales) ==
    IF total_sales >= 500000 THEN "Monthly"
    ELSE IF total_sales >= 250000 THEN "Quarterly"
    ELSE "Annual"

FilingFrequency(total_sales) ==
    IF total_sales > 500000 THEN "Monthly"
    ELSE IF total_sales > 250000 THEN "Quarterly"
    ELSE "Annual"

\* the days from now to next_due_date
DueDays(frequency) ==
    IF frequency = "Monthly" THEN 20
    ELSE IF frequency = "Quarterly" THEN 45
    ELSE 90

FilingPriority(total_sales) ==
    IF total_sales > 500000 THEN "High" ELSE "Medium"

FilingEntry(state_code, data) ==
    [state_code |-> state_code,
     state_name |-> data.state_name,
     frequency |-> FilingFrequency(data.total_sales),
     next_due_days |-> DueDays(FilingFrequency(data.total_sales)),
     estimated_tax |-> FracScale(data.total_sales, data.combined_tax_rate),
     status |-> "Registration & Filing Required",
     priority |-> FilingPriority(data.total_sales)]

RECURSIVE FilingLoop(_, _)
FilingLoop(keys, nexus) ==
    IF keys = <<>> THEN <<>>
    ELSE (IF FilingRequired(nexus.val[Head(keys)])
          THEN <<FilingEntry(Head(keys), nexus.val[Head(keys)])>>
          ELSE <<>>)
         \o FilingLoop(Tail(keys), nexus)

generate_filing_requirements(nexus) == FilingLoop(nexus.keys, nexus)

(***************************************************************************)
(* analyze_sales_data_csv, stage by stage.                                 *)
(***************************************************************************)
NoValue == [unset |-> TRUE]
NoFrame == [columns |-> <<>>, rows |-> <<>>]

RECURSIVE ColumnSum(_, _)
ColumnSum(rows, col) ==
    IF rows = <<>> THEN 0 ELSE Head(rows)[col] + ColumnSum(Tail(rows), col)

\* sum([df[col].sum() for col in amount_cols if col in df.columns])
RECURSIVE TotalRevenue(_, _)
TotalRevenue(frame, amount_columns) ==
    IF amount_columns = <<>> THEN 0
    ELSE (IF HasColumn(frame, Head(amount_columns))
          THEN ColumnSum(frame.rows, Head(amount_columns)) ELSE 0)
         + TotalRevenue(frame, Tail(amount_columns))

\* df.head(10).to_dict('records') if len(df) > 0 else []
Preview(frame) ==
    IF Len(frame.rows) > 0
    THEN SubSeq(frame.rows, 1, IF Len(frame.rows) < 10 THEN Len(frame.rows) ELSE 10)
    ELSE <<>>

SuccessResult ==
    [type |-> "sales_data",
     summary |->
        [total_transactions |-> Len(df.rows),
         total_revenue |-> TotalRevenue(df, amount_cols),
         states_with_sales |-> Len(nexus_analysis.keys),
         nexus_states |-> NexusStateCount(nexus_analysis),
         filing_required |-> Len(filing_requirements)],
     nexus_analysis |-> nexus_analysis,
     tax_obligations |-> tax_obligations,
     compliance_status |-> compliance_status,
     filing_requirements |-> filing_requirements,
     preview |-> Preview(df),
     success |-> TRUE]

\* combined_df.head(10).to_dict('records')
ExcelPreview(frame) ==
    SubSeq(frame.rows, 1, IF Len(frame.rows) < 10 THEN Len(frame.rows) ELSE 10)

\* what analyze_sales_data_excel returns: the same, with the sheet count
ExcelSuccessResult ==
    [type |-> "sales_data",
     summary |->
        [total_transactions |-> Len(df.rows),
         total_revenue |-> TotalRevenue(df, amount_cols),
         states_with_sales |-> Len(nexus_analysis.keys),
         nexus_states |-> NexusStateCount(nexus_analysis),
         filing_required |-> Len(filing_requirements),
         total_sheets |-> Len(sheet_names)],
     nexus_analysis |-> nexus_analysis,
     tax_obligations |-> tax_obligations,
     compliance_status |-> compliance_status,
     filing_requirements |-> filing_requirements,
     preview |-> ExcelPreview(df),
     success |-> TRUE]

\* the exceptions pd.read_csv and pd.ExcelFile raise on a file they cannot
\* read
CsvReadErrors == {"EmptyDataError", "ParserError"}
ExcelReadErrors == {"ValueError", "BadZipFile"}

\* f"Error analyzing sales data: {str(e)}" and its Excel counterparts
CsvError(e) == <<"Error analyzing sales data: ", e>>
ExcelError(e) == <<"Error analyzing Excel sales data: ", e>>
NoReadableData == <<"No readable data found in Excel file">>

\* a failure result that carries what the stages before the failure produced
FailureWithPartialData(error) ==
    [type |-> "sales_data",
     error |-> error,
     success |-> FALSE,
     nexus_analysis |-> nexus_analysis]

FailureResult(error) ==
    [type |-> "sales_data",
     error |-> error,
     success |-> FALSE]

Init ==
    /\ pc = "idle"
    /\ df = NoFrame
    /\ amount_cols = <<>>
    /\ state_cols = <<>>
    /\ city_cols = <<>>
    /\ product_cols = <<>>
    /\ nexus_analysis = EmptyDict
    /\ tax_obligations = EmptyDict
    /\ compliance_status = NoValue
    /\ filing_requirements = <<>>
    /\ result = NoValue
    /\ sheet_names = <<>>
    /\ description = None
    /\ category = ""

\* analyze_sales_data_csv up to the analyzers: pd.read_csv, which raises on
\* a file it cannot parse, and the column inference.  The upload is any
\* dataset of at most MaxRecords rows, one per multiset of rows: every
\* aggregate is a sum over groups whose keys pandas sorts, so the order of
\* the rows does not reach any result.
ReadCsv ==
    /\ pc = "idle"
    /\ \/ /\ \E e \in CsvReadErrors : result' = FailureResult(CsvError(e))
          /\ pc' = "done"
          /\ UNCHANGED <<df, amount_cols, state_cols, city_cols, product_cols>>
       \/ /\ \E columns \in Layouts :
                /\ amount_cols' = MatchingColumns(columns, AMOUNT_KEYWORDS)
                /\ state_cols' = MatchingColumns(columns, STATE_KEYWORDS)
                /\ city_cols' = MatchingColumns(columns, CITY_KEYWORDS)
                /\ product_cols' = MatchingColumns(columns, PRODUCT_KEYWORDS)
                /\ \E n \in 0..MaxRecords :
                      \E picks \in [1..n -> 0..(RowCount(columns) - 1)] :
                          /\ Sorted(picks)
                          /\ df' = Frame(columns, picks)
          /\ pc' = "read"
          /\ UNCHANGED result
    /\ UNCHANGED <<nexus_analysis, tax_obligations, compliance_status,
                   filing_requirements, sheet_names, description, category>>

\* the sheets of one workbook, concatenated: the first k rows come from its
\* first sheet, the others from its second, each with its sheet's name in
\* the source_sheet column
CombinedFrame(columns, picks, names, k) ==
    [columns |-> Append(columns, "source_sheet"),
     rows |-> [i \in 1..Len(picks) |->
                 ("source_sheet" :> (IF i <= k THEN names[1] ELSE names[2]))
                 @@ RowAt(columns, picks[i])]]

\* analyze_sales_data_excel up to the analyzers: pd.ExcelFile, which raises
\* on a file it cannot open; the sheets, of which the unreadable and the
\* empty ones are skipped; the failure result when nothing is left; the
\* column inference.  The sheets of a workbook share their header and hold
\* at most MaxRecords rows together.
ReadExcel ==
    /\ pc = "idle"
    /\ \/ /\ \E e \in ExcelReadErrors : result' = FailureResult(ExcelError(e))
          /\ pc' = "done"
          /\ UNCHANGED <<df, amount_cols, state_cols, city_cols, product_cols,
                         sheet_names>>
       \/ /\ \E names \in Workbooks : sheet_names' = names
          /\ result' = FailureResult(NoReadableData)
          /\ pc' = "done"
          /\ UNCHANGED <<df, amount_cols, state_cols, city_cols, product_cols>>
       \/ /\ \E columns \in ExcelLayouts :
                LET combined == Append(columns, "source_sheet")
                IN  /\ amount_cols' = MatchingColumns(combined, AMOUNT_KEYWORDS)
                    /\ state_cols' = MatchingColumns(combined, STATE_KEYWORDS)
                    /\ city_cols' = MatchingColumns(combined, CITY_KEYWORDS)
                    /\ product_cols' = MatchingColumns(combined, PRODUCT_KEYWORDS)
                    /\ \E names \in Workbooks :
                          /\ sheet_names' = names
                          /\ \E n \in 1..MaxRecords :
                              \E picks \in [1..n -> 0..(RowCount(columns) - 1)] :
                                /\ Sorted(picks)
                                /\ \E k \in (IF Len(names) = 1 THEN {n} ELSE 0..n) :
                                      df' = CombinedFrame(columns, picks, names, k)
          /\ pc' = "read"
          /\ UNCHANGED result
    /\ UNCHANGED <<nexus_analysis, tax_obligations, compliance_status,
                   filing_requirements, description, category>>

AnalyzeNexus ==
    /\ pc = "read"
    /\ nexus_analysis' = analyze_nexus_threshold(df, amount_cols, state_cols, city_cols)
    /\ pc' = "nexus"
    /\ UNCHANGED <<df, amount_cols, state_cols, city_cols, product_cols,
                   tax_obligations, compliance_status, filing_requirements,
                   result, sheet_names, description, category>>

\* the call, and the except clause of the entry point when it raises
CalculateTax ==
    /\ pc = "nexus"
    /\ LET out == calculate_tax_obligations_by_product(
                      df, amount_cols, state_cols, city_cols, product_cols)
       IN  IF out.raised
           THEN /\ result' = FailureResult(IF sheet_names = <<>>
                                           THEN CsvError(AttributeError)
                                           ELSE ExcelError(AttributeError))
                /\ pc' = "done"
                /\ UNCHANGED <<df, tax_obligations>>
           ELSE /\ df' = out.frame
                /\ tax_obligations' = out.tax_obligations
                /\ pc' = "tax"
                /\ UNCHANGED result
    /\ UNCHANGED <<amount_cols, state_cols, city_cols, product_cols,
                   nexus_analysis, compliance_status, filing_requirements,
                   sheet_names, description, category>>

CheckCompliance ==
    /\ pc = "tax"
    /\ compliance_status' = check_compliance_status(nexus_analysis)
    /\ pc' = "compliance"
    /\ UNCHANGED <<df, amount_cols, state_cols, city_cols, product_cols,
                   nexus_analysis, tax_obligations, filing_requirements,
                   result, sheet_names, description, category>>

GenerateFiling ==
    /\ pc = "compliance"
    /\ filing_requirements' = generate_filing_requirements(nexus_analysis)
    /\ pc' = "filing"
    /\ UNCHANGED <<df, amount_cols, state_cols, city_cols, product_cols,
                   nexus_analysis, tax_obligations, compliance_status,
                   result, sheet_names, description, category>>

Return ==
    /\ pc = "filing"
    /\ result' = IF sheet_names = <<>> THEN SuccessResult ELSE ExcelSuccessResult
    /\ pc' = "done"
    /\ UNCHANGED <<df, amount_cols, state_cols, city_cols, product_cols,
                   nexus_analysis, tax_obligations, compliance_status,
                   filing_requirements, sheet_names, description, category>>

Next ==
    \/ ReadCsv
    \/ ReadExcel
    \/ AnalyzeNexus
    \/ CalculateTax
    \/ CheckCompliance
    \/ GenerateFiling
    \/ Return

Spec == Init /\ [][Next]_vars

(***************************************************************************)
(* classify_product on its own: a description is drawn, then classified.   *)
(***************************************************************************)
RECURSIVE JoinWords(_)
JoinWords(ws) ==
    IF ws = <<>> THEN <<>>
    ELSE IF Len(ws) = 1 THEN Words[ws[1]]
    ELSE Words[ws[1]] \o <<" ">> \o JoinWords(Tail(ws))

\* the descriptions handed to classify_product: up to MaxWords words joined
\* by spaces (the empty str among them), the product names of the uploads,
\* None, and the nan of an empty cell
Descriptions ==
    { Str(JoinWords(ws)) :
        ws \in UNION { [1..n -> DOMAIN Words] : n \in 0..MaxWords } }
    \cup {Str(Text[cell]) : cell \in Range(CellValues.Product) \ {NaNCell}}
    \cup {None, NaN}

InitClassify ==
    /\ pc = "classify"
    /\ df = NoFrame
    /\ amount_cols = <<>>
    /\ state_cols = <<>>
    /\ city_cols = <<>>
    /\ product_cols = <<>>
    /\ nexus_analysis = EmptyDict
    /\ tax_obligations = EmptyDict
    /\ compliance_status = NoValue
    /\ filing_requirements = <<>>
    /\ result = NoValue
    /\ sheet_names = <<>>
    /\ description \in Descriptions
    /\ category = ""

Classify ==
    /\ pc = "classify"
    /\ category' = classify_product(description)
    /\ pc' = "classified"
    /\ UNCHANGED <<df, amount_cols, state_cols, city_cols, product_cols,
                   nexus_analysis, tax_obligations, compliance_status,
                   filing_requirements, result, sheet_names, description>>

NextClassify == Classify

SpecClassify == InitClassify /\ [][NextClassify]_vars

(***************************************************************************)
(* What the claims are measured against: figures computed from the rows of *)
(* the upload, row by row, without the grouping of the analyzers.          *)
(***************************************************************************)
RECURSIVE SumOver(_, _)
SumOver(S, f) ==
    IF S = {} THEN 0
    ELSE LET x == CHOOSE y \in S : TRUE
         IN  f[x] + SumOver(S \ {x}, f)

\* the rows whose jurisdiction code normalises to state_code
RowsOf(state_code) ==
    {i \in DOMAIN df.rows : Upper(df.rows[i][state_cols[1]]) = state_code}

RowAmount == [i \in DOMAIN df.rows |-> df.rows[i][amount_cols[1]]]

\* the total local rate of row i's locality in state_code; 0 without a
\* locality column
RowLocalRate(state_code) ==
    [i \in DOMAIN df.rows |->
        IF city_cols = <<>> THEN 0
        ELSE get_local_tax_rates(state_code,
                                 Title(df.rows[i][city_cols[1]])).total_local_rate]

\* the taxability matrix, read directly: only a listed pair can be exempt
ListedExempt(product_type, state_code) ==
    /\ product_type \in DOMAIN PRODUCT_TAX_RULES
    /\ state_code \in DOMAIN PRODUCT_TAX_RULES[product_type]
    /\ ~PRODUCT_TAX_RULES[product_type][state_code].taxable

\* the rows of state_code that are taxable there / that are of one category
TaxableRowsOf(state_code) ==
    {i \in RowsOf(state_code) : ~ListedExempt(df.rows[i].product_type, state_code)}
CategoryRowsOf(state_code, product_type) ==
    {i \in RowsOf(state_code) : df.rows[i].product_type = product_type}

\* n / d for any d # 0
Quotient(n, d) == IF d > 0 THEN Frac(n, d) ELSE Frac(-n, -d)

MinOf(S) == CHOOSE x \in S : \A y \in S : x <= y
MaxOf(S) == CHOOSE x \in S : \A y \in S : x >= y

NexusStates == Range(nexus_analysis.keys)
TaxStates == Range(tax_obligations.keys)

(***************************************************************************)
(* C1.  In the nexus analysis output, has_nexus is true exactly when the   *)
(* jurisdiction's threshold is above 0 and total_sales >= threshold (sales *)
(* equal to the threshold give nexus); with threshold 0 it is false        *)
(* whatever the sales.                                                     *)
(***************************************************************************)
C1_HasNexus ==
    pc = "nexus" =>
        \A s \in NexusStates :
            LET e == nexus_analysis.val[s]
                threshold == US_STATES[s].nexus_threshold
            IN  /\ e.nexus_threshold = threshold
                /\ e.has_nexus <=> (threshold > 0 /\ e.total_sales >= threshold)
                /\ threshold = 0 => ~e.has_nexus

\* sales exactly at a positive threshold give nexus, and a zero-threshold
\* jurisdiction with sales has none
C1_Witness ==
    /\ pc = "nexus"
    /\ \E s \in NexusStates :
          /\ nexus_analysis.val[s].nexus_threshold > 0
          /\ nexus_analysis.val[s].total_sales = nexus_analysis.val[s].nexus_threshold
          /\ nexus_analysis.val[s].has_nexus
    /\ \E s \in NexusStates :
          /\ nexus_analysis.val[s].nexus_threshold = 0
          /\ nexus_analysis.val[s].total_sales > 0
          /\ ~nexus_analysis.val[s].has_nexus

(***************************************************************************)
(* C2 as claimed.  For every jurisdiction of the nexus analysis output,    *)
(* excess_amount = max(0, total_sales - threshold), and excess_amount is 0 *)
(* whenever has_nexus is false.                                            *)
(***************************************************************************)
C2_Claimed ==
    pc = "nexus" =>
        \A s \in NexusStates :
            LET e == nexus_analysis.val[s]
            IN  /\ e.excess_amount = Max(0, e.total_sales - e.nexus_threshold)
                /\ ~e.has_nexus => e.excess_amount = 0

(***************************************************************************)
(* C2 as amended.  For every jurisdiction of the nexus analysis output     *)
(* with a threshold above 0, excess_amount = max(0, total_sales -          *)
(* threshold); with threshold 0 it is 0; and excess_amount is 0 whenever   *)
(* has_nexus is false.                                                     *)
(***************************************************************************)
C2_Excess ==
    pc = "nexus" =>
        \A s \in NexusStates :
            LET e == nexus_analysis.val[s]
                threshold == US_STATES[s].nexus_threshold
            IN  /\ threshold > 0 =>
                       e.excess_amount = Max(0, e.total_sales - threshold)
                /\ threshold = 0 => e.excess_amount = 0
                /\ ~e.has_nexus => e.excess_amount = 0

\* one jurisdiction over its threshold with a positive excess, and a
\* zero-threshold jurisdiction with sales and no excess
C2_Witness ==
    /\ pc = "nexus"
    /\ \E s \in NexusStates :
          /\ nexus_analysis.val[s].nexus_threshold > 0
          /\ nexus_analysis.val[s].excess_amount > 0
    /\ \E s \in NexusStates :
          /\ nexus_analysis.val[s].nexus_threshold = 0
          /\ nexus_analysis.val[s].total_sales > 0
          /\ nexus_analysis.val[s].excess_amount = 0

(***************************************************************************)
(* C3.  generate_filing_requirements returns exactly one requirement for   *)
(* each jurisdiction with has_nexus and threshold > 0, none for any other, *)
(* and no jurisdiction code appears in two requirements.                   *)
(***************************************************************************)
RequirementsFor(state_code) ==
    {k \in DOMAIN filing_requirements :
        filing_requirements[k].state_code = state_code}

C3_OnePerNexusState ==
    pc = "filing" =>
        /\ \A s \in NexusStates :
              Cardinality(RequirementsFor(s)) =
                  IF /\ nexus_analysis.val[s].has_nexus
                     /\ US_STATES[s].nexus_threshold > 0
                  THEN 1 ELSE 0
        /\ \A k \in DOMAIN filing_requirements :
              filing_requirements[k].state_code \in NexusStates

\* a run with a jurisdiction that gets its requirement and one that gets
\* none
C3_Witness ==
    /\ pc = "filing"
    /\ Len(filing_requirements) >= 1
    /\ \E s \in NexusStates :
          ~nexus_analysis.val[s].has_nexus /\ RequirementsFor(s) = {}
    /\ \E s \in NexusStates :
          nexus_analysis.val[s].has_nexus /\ Cardinality(RequirementsFor(s)) = 1

(***************************************************************************)
(* C4.  For every filing requirement: Monthly only when total_sales >      *)
(* 500,000, Quarterly only when 250,000 < total_sales <= 500,000, Annual   *)
(* otherwise; priority High if total_sales > 500,000, else Medium.         *)
(***************************************************************************)
C4_FrequencyAndPriority ==
    pc = "filing" =>
        \A k \in DOMAIN filing_requirements :
            LET r == filing_requirements[k]
                total_sales == nexus_analysis.val[r.state_code].total_sales
            IN  /\ r.frequency \in {"Monthly", "Quarterly", "Annual"}
                /\ r.frequency = "Monthly" <=> total_sales > 500000
                /\ r.frequency = "Quarterly" <=>
                       (250000 < total_sales /\ total_sales <= 500000)
                /\ r.frequency = "Annual" <=> total_sales <= 250000
                /\ r.priority = IF total_sales > 500000 THEN "High" ELSE "Medium"

\* sales of exactly 500,000 filed Quarterly/Medium beside sales of exactly
\* 250,000 filed Annual/Medium
C4_Witness ==
    /\ pc = "filing"
    /\ \E k \in DOMAIN filing_requirements :
          /\ nexus_analysis.val[filing_requirements[k].state_code].total_sales = 500000
          /\ filing_requirements[k].frequency = "Quarterly"
          /\ filing_requirements[k].priority = "Medium"
    /\ \E k \in DOMAIN filing_requirements :
          /\ nexus_analysis.val[filing_requirements[k].state_code].total_sales = 250000
          /\ filing_requirements[k].frequency = "Annual"
          /\ filing_requirements[k].priority = "Medium"

\* a requirement filed Monthly with priority High
C4_MonthlyReached ==
    /\ pc = "filing"
    /\ \E k \in DOMAIN filing_requirements :
          /\ filing_requirements[k].frequency = "Monthly"
          /\ filing_requirements[k].priority = "High"

(***************************************************************************)
(* C5 as claimed.  For every jurisdiction of the tax obligation output and *)
(* any input records, the sum of the per-category taxable_sales is <= the  *)
(* jurisdiction's total_sales, with equality when every category present   *)
(* is taxable there.                                                       *)
(***************************************************************************)
CategoryTaxableSum(state_code) ==
    LET breakdown == tax_obligations.val[state_code].product_breakdown
    IN  SumOver(Range(breakdown.keys),
                [c \in Range(breakdown.keys) |-> breakdown.val[c].taxable_sales])

AllCategoriesTaxable(state_code) ==
    \A c \in Range(tax_obligations.val[state_code].product_breakdown.keys) :
        ~ListedExempt(c, state_code)

C5_Claimed ==
    pc = "tax" =>
        \A s \in TaxStates :
            /\ CategoryTaxableSum(s) <= tax_obligations.val[s].total_sales
            /\ AllCategoriesTaxable(s) =>
                   CategoryTaxableSum(s) = tax_obligations.val[s].total_sales

(***************************************************************************)
(* C5 as amended.  For every jurisdiction of the tax obligation output     *)
(* whose non-taxable records do not sum to a negative amount (so whenever  *)
(* no amount is negative), the sum of the per-category taxable_sales is    *)
(* <= the jurisdiction's total_sales; and for any input records the two    *)
(* are equal when every category present is taxable there.                 *)
(***************************************************************************)
NonTaxableRowSum(state_code) ==
    SumOver(RowsOf(state_code) \ TaxableRowsOf(state_code), RowAmount)

C5_TaxableWithinTotal ==
    pc = "tax" =>
        \A s \in TaxStates :
            /\ NonTaxableRowSum(s) >= 0 =>
                   CategoryTaxableSum(s) <= tax_obligations.val[s].total_sales
            /\ AllCategoriesTaxable(s) =>
                   CategoryTaxableSum(s) = tax_obligations.val[s].total_sales

\* a jurisdiction with a taxable and an exempt category, both with sales,
\* whose taxable sum is below its total
C5_Witness ==
    /\ pc = "tax"
    /\ \E s \in TaxStates :
          /\ ~AllCategoriesTaxable(s)
          /\ NonTaxableRowSum(s) > 0
          /\ CategoryTaxableSum(s) > 0
          /\ CategoryTaxableSum(s) < tax_obligations.val[s].total_sales

\* a jurisdiction with two categories, both taxable, whose taxable sum is
\* its total
C5_EqualityReached ==
    /\ pc = "tax"
    /\ \E s \in TaxStates :
          /\ AllCategoriesTaxable(s)
          /\ Len(tax_obligations.val[s].product_breakdown.keys) = 2
          /\ tax_obligations.val[s].total_sales > 0
          /\ CategoryTaxableSum(s) = tax_obligations.val[s].total_sales

(***************************************************************************)
(* C6 as claimed.  For every jurisdiction with at least one locality       *)
(* recorded, avg_local_tax_rate lies between the minimum and the maximum   *)
(* total local rate of the localities of its breakdown, for any input      *)
(* amounts.                                                                *)
(***************************************************************************)
BreakdownRates(state_code) ==
    LET breakdown == nexus_analysis.val[state_code].city_breakdown
    IN  {breakdown[k].local_rates.total_local_rate : k \in DOMAIN breakdown}

RateWithinLocalities(state_code) ==
    LET avg == nexus_analysis.val[state_code].avg_local_tax_rate
    IN  /\ FracLeq(FracOfInt(MinOf(BreakdownRates(state_code))), avg)
        /\ FracLeq(avg, FracOfInt(MaxOf(BreakdownRates(state_code))))

C6_Claimed ==
    pc = "nexus" =>
        \A s \in NexusStates :
            nexus_analysis.val[s].city_breakdown # <<>> => RateWithinLocalities(s)

(***************************************************************************)
(* C6 as amended.  For every jurisdiction with at least one locality       *)
(* recorded whose locality sales are all non-negative and sum to more than *)
(* 0, avg_local_tax_rate lies between the minimum and the maximum total    *)
(* local rate of the localities of its breakdown.                          *)
(***************************************************************************)
PositiveLocalitySales(state_code) ==
    LET breakdown == nexus_analysis.val[state_code].city_breakdown
    IN  /\ breakdown # <<>>
        /\ \A k \in DOMAIN breakdown : breakdown[k].sales >= 0
        /\ \E k \in DOMAIN breakdown : breakdown[k].sales > 0

C6_ConvexCombination ==
    pc = "nexus" =>
        \A s \in NexusStates :
            PositiveLocalitySales(s) => RateWithinLocalities(s)

\* two localities of different rates, both with sales, and an average
\* strictly between the two rates
C6_Witness ==
    /\ pc = "nexus"
    /\ \E s \in NexusStates :
          /\ PositiveLocalitySales(s)
          /\ Cardinality(BreakdownRates(s)) = 2
          /\ \A k \in DOMAIN nexus_analysis.val[s].city_breakdown :
                nexus_analysis.val[s].city_breakdown[k].sales > 0
          /\ nexus_analysis.val[s].avg_local_tax_rate.num >
                 MinOf(BreakdownRates(s)) * nexus_analysis.val[s].avg_local_tax_rate.den
          /\ nexus_analysis.val[s].avg_local_tax_rate.num <
                 MaxOf(BreakdownRates(s)) * nexus_analysis.val[s].avg_local_tax_rate.den

(***************************************************************************)
(* C7 as claimed.  combined_tax_rate = base rate + composite local rate,   *)
(* the composite being the sum over the jurisdiction's localities of       *)
(* (total local rate x sales) divided by the sum of the locality sales,    *)
(* and 0 when no localities are recorded or the total locality sales is 0; *)
(* with no locality data the combined rate is the base rate.               *)
(***************************************************************************)
LocalitySalesOf(state_code) == SumOver(RowsOf(state_code), RowAmount)

WeightedLocalRateOf(state_code) ==
    SumOver(RowsOf(state_code),
            [i \in DOMAIN df.rows |-> RowLocalRate(state_code)[i] * RowAmount[i]])

ClaimedComposite(state_code) ==
    IF city_cols = <<>> \/ LocalitySalesOf(state_code) = 0 THEN FracOfInt(0)
    ELSE Quotient(WeightedLocalRateOf(state_code), LocalitySalesOf(state_code))

C7_Claimed ==
    pc = "nexus" =>
        \A s \in NexusStates :
            LET e == nexus_analysis.val[s]
            IN  /\ e.avg_local_tax_rate = ClaimedComposite(s)
                /\ e.combined_tax_rate =
                       FracAdd(FracOfInt(US_STATES[s].rate), ClaimedComposite(s))
                /\ city_cols = <<>> => e.combined_tax_rate = FracOfInt(US_STATES[s].rate)

(***************************************************************************)
(* C7 as amended.  As claimed, except that the composite local rate is 0   *)
(* when no localities are recorded or the total locality sales is 0 or     *)
(* negative.                                                               *)
(***************************************************************************)
Composite(state_code) ==
    IF city_cols = <<>> \/ LocalitySalesOf(state_code) <= 0 THEN FracOfInt(0)
    ELSE Quotient(WeightedLocalRateOf(state_code), LocalitySalesOf(state_code))

C7_CombinedRate ==
    pc = "nexus" =>
        \A s \in NexusStates :
            LET e == nexus_analysis.val[s]
            IN  /\ e.avg_local_tax_rate = Composite(s)
                /\ e.combined_tax_rate =
                       FracAdd(FracOfInt(US_STATES[s].rate), Composite(s))
                /\ city_cols = <<>> => e.combined_tax_rate = FracOfInt(US_STATES[s].rate)

\* two localities of different rates and different sales: the composite is
\* the weighted average, which is not the plain mean of the two rates
C7_Witness ==
    /\ pc = "nexus"
    /\ \E s \in NexusStates :
          LET e == nexus_analysis.val[s]
          IN  /\ Len(e.city_breakdown) = 2
              /\ e.city_breakdown[1].sales > 0
              /\ e.city_breakdown[2].sales > e.city_breakdown[1].sales
              /\ Cardinality(BreakdownRates(s)) = 2
              /\ e.avg_local_tax_rate.num * 2 #
                     (MinOf(BreakdownRates(s)) + MaxOf(BreakdownRates(s)))
                     * e.avg_local_tax_rate.den
              /\ e.combined_tax_rate =
                     FracAdd(FracOfInt(US_STATES[s].rate), e.avg_local_tax_rate)

(***************************************************************************)
(* C8.  For every recognized jurisdiction, total_sales of the nexus        *)
(* analysis equals the sum of the amounts of all input records whose       *)
(* jurisdiction code normalizes (uppercase) to it, with a locality column  *)
(* and without.                                                            *)
(***************************************************************************)
C8_TotalIsSumOfRecords ==
    pc = "nexus" =>
        \A s \in NexusStates :
            nexus_analysis.val[s].total_sales = SumOver(RowsOf(s), RowAmount)

\* C8, the half that holds: with a locality column the roll-up adds every
\* group of the jurisdiction, so the total is the sum of its records.
C8_WithLocalityColumn ==
    (pc = "nexus" /\ city_cols # <<>>) =>
        \A s \in NexusStates :
            nexus_analysis.val[s].total_sales = SumOver(RowsOf(s), RowAmount)

\* C8, the case that fails: no locality column, and two records whose codes
\* differ only in letter case, so that they fall in two groups of one
\* jurisdiction.
C8_TwoSpellingsNoLocality ==
    /\ pc = "nexus"
    /\ city_cols = <<>>
    /\ \E i, j \in DOMAIN df.rows :
          /\ df.rows[i][state_cols[1]] # df.rows[j][state_cols[1]]
          /\ Upper(df.rows[i][state_cols[1]]) = Upper(df.rows[j][state_cols[1]])
          /\ Upper(df.rows[i][state_cols[1]]) \in NexusStates

(***************************************************************************)
(* C9.  In the tax obligation calculator a group whose (category,          *)
(* jurisdiction) pair is not taxable adds its full amount to total_sales   *)
(* and 0 to taxable_sales, to state tax owed, to local tax owed and to the *)
(* category's tax_owed; an unlisted pair is treated as taxable.            *)
(***************************************************************************)
C9_ExemptGroups ==
    pc = "tax" =>
        \A s \in TaxStates :
            LET e == tax_obligations.val[s]
                taxable == TaxableRowsOf(s)
            IN  /\ e.total_sales = SumOver(RowsOf(s), RowAmount)
                /\ e.taxable_sales = SumOver(taxable, RowAmount)
                /\ e.state_tax_owed = SumOver(taxable, RowAmount) * US_STATES[s].rate
                /\ e.local_tax_owed =
                       SumOver(taxable,
                               [i \in DOMAIN df.rows |->
                                   RowLocalRate(s)[i] * RowAmount[i]])
                /\ e.total_tax_owed = e.state_tax_owed + e.local_tax_owed
                /\ \A c \in Range(e.product_breakdown.keys) :
                      LET p == e.product_breakdown.val[c]
                      IN  /\ p.is_taxable = ~ListedExempt(c, s)
                          /\ p.total_sales = SumOver(CategoryRowsOf(s, c), RowAmount)
                          /\ ListedExempt(c, s) =>
                                 p.taxable_sales = 0 /\ p.tax_owed = 0

\* a jurisdiction whose only sales are of an exempt category: full
\* total_sales, nothing taxable, no tax; beside a jurisdiction where the
\* same kind of pair is unlisted and taxed as taxable
C9_Witness ==
    /\ pc = "tax"
    /\ \E s \in TaxStates :
          LET e == tax_obligations.val[s]
          IN  /\ e.total_sales > 0
              /\ e.taxable_sales = 0
              /\ e.total_tax_owed = 0
              /\ US_STATES[s].rate > 0
              /\ \E c \in Range(e.product_breakdown.keys) : ListedExempt(c, s)
    /\ \E s \in TaxStates :
          /\ s \notin DOMAIN PRODUCT_TAX_RULES.saas
          /\ tax_obligations.val[s].taxable_sales > 0
          /\ \E c \in Range(tax_obligations.val[s].product_breakdown.keys) :
                c # "physical_goods"

(***************************************************************************)
(* C10.  classify_product returns exactly one category for every           *)
(* description: the first matching keyword group in the order software,    *)
(* saas, consulting, else physical_goods, matching being case-insensitive  *)
(* substring search; an empty or missing description gives physical_goods. *)
(***************************************************************************)
\* keyword kw occurs in cs at some position, letter case aside
OccursIgnoringCase(kw, cs) ==
    \E at \in 0..(Len(cs) - Len(kw)) :
        \A j \in 1..Len(kw) :
            LET c == cs[at + j]
            IN  kw[j] = (IF c \in DOMAIN ToLower THEN ToLower[c] ELSE c)

GroupMatches(keywords, cs) ==
    \E k \in DOMAIN keywords : OccursIgnoringCase(keywords[k], cs)

MissingOrEmpty(v) == v.type # "str" \/ v.chars = <<>>

ClaimedCategory(v) ==
    IF MissingOrEmpty(v) THEN "physical_goods"
    ELSE IF GroupMatches(SOFTWARE_KEYWORDS, v.chars) THEN "software"
    ELSE IF GroupMatches(SAAS_KEYWORDS, v.chars) THEN "saas"
    ELSE IF GroupMatches(CONSULTING_KEYWORDS, v.chars) THEN "consulting"
    ELSE "physical_goods"

C10_Classification ==
    pc = "classified" =>
        /\ category \in ProductTypes
        /\ category = ClaimedCategory(description)

\* the same on the descriptions that are a str or None
C10_OnStrOrNone ==
    (pc = "classified" /\ description # NaN) =>
        /\ category \in ProductTypes
        /\ category = ClaimedCategory(description)

\* 'Custom Development Package' classified consulting
C10_Scenario4 ==
    /\ pc = "classified"
    /\ description = Str(Text["Custom Development Package"])
    /\ category = "consulting"

(***************************************************************************)
(* C11.  Records whose jurisdiction code is not in the reference table     *)
(* after uppercase normalization are silently excluded: the code is never  *)
(* a key of the nexus analysis or of the tax obligations, the run still    *)
(* succeeds, and the results of every recognized jurisdiction are what     *)
(* they would be with those records absent from the input.                 *)
(***************************************************************************)
\* the dataset without the records of unrecognized jurisdictions
RecognizedOnly(frame) ==
    IF state_cols = <<>> \/ ~HasColumn(frame, state_cols[1]) THEN frame
    ELSE [columns |-> frame.columns,
          rows |-> SelectSeq(frame.rows,
                             LAMBDA row : Upper(row[state_cols[1]]) \in DOMAIN US_STATES)]

\* the tax stage on the dataset without those records
TaxWithoutUnrecognized ==
    calculate_tax_obligations_by_product(
        RecognizedOnly(df), amount_cols, state_cols, city_cols, product_cols)

HasUnrecognizedRecord == RecognizedOnly(df) # df

C11_UnrecognizedExcluded ==
    /\ pc = "nexus" =>
          /\ NexusStates \subseteq DOMAIN US_STATES
          /\ nexus_analysis = analyze_nexus_threshold(
                 RecognizedOnly(df), amount_cols, state_cols, city_cols)
    /\ pc = "tax" =>
          /\ TaxStates \subseteq DOMAIN US_STATES
          /\ tax_obligations = TaxWithoutUnrecognized.tax_obligations
    /\ (pc = "done" /\ df # NoFrame) =>
          (result.success <=> ~TaxWithoutUnrecognized.raised)

\* C11, the part that holds: whenever the stages complete, their outputs
\* are those of the dataset without the unrecognized records.
C11_ExcludedWhenStagesComplete ==
    /\ pc = "nexus" =>
          /\ NexusStates \subseteq DOMAIN US_STATES
          /\ nexus_analysis = analyze_nexus_threshold(
                 RecognizedOnly(df), amount_cols, state_cols, city_cols)
    /\ pc = "tax" =>
          /\ TaxStates \subseteq DOMAIN US_STATES
          /\ tax_obligations = TaxWithoutUnrecognized.tax_obligations

\* a run over a recognized and an unrecognized jurisdiction that completes
C11_DroppedReached ==
    /\ pc = "done"
    /\ result.success
    /\ HasUnrecognizedRecord
    /\ result.tax_obligations.keys # <<>>

\* a run that fails although it would succeed without its unrecognized
\* records
C11_FailsOnUnrecognizedRecord ==
    /\ pc = "done"
    /\ df # NoFrame
    /\ ~result.success
    /\ ~TaxWithoutUnrecognized.raised

(***************************************************************************)
(* C12.  In a run of analyze_sales_data_csv or analyze_sales_data_excel a  *)
(* failure in reading the dataset or in an analyzer stage is returned as   *)
(* the structured result {success: false, error: message}: a run that has  *)
(* returned has a result, with success true or false.  After a failure the *)
(* compliance and filing stages have not been invoked, and the failure     *)
(* result carries no nexus, tax, compliance or filing data.                *)
(***************************************************************************)
Failed == pc = "done" /\ ~result.success

C12_FailureIsStructured ==
    /\ pc = "done" =>
          /\ result # NoValue
          /\ result.success \in BOOLEAN
    /\ Failed =>
          /\ DOMAIN result = {"type", "error", "success"}
          /\ result.type = "sales_data"
          /\ result.error # <<>>
          /\ compliance_status = NoValue
          /\ filing_requirements = <<>>

\* a failure in the tax stage, after the nexus stage found a jurisdiction
\* with nexus: no filing requirement was generated for it and the result
\* carries nothing of the nexus analysis
C12_Witness ==
    /\ Failed
    /\ \E s \in NexusStates : nexus_analysis.val[s].has_nexus
    /\ compliance_status = NoValue
    /\ filing_requirements = <<>>
    /\ "nexus_analysis" \notin DOMAIN result

\* the failures of reading: a file pd.read_csv or pd.ExcelFile cannot read,
\* and a workbook without a readable, non-empty sheet
C12_ReadFailureReached ==
    /\ Failed
    /\ df = NoFrame
    /\ sheet_names = <<>>
C12_NoReadableDataReached ==
    /\ Failed
    /\ result.error = NoReadableData
    /\ Len(sheet_names) = 2
\* a failure in the tax stage of a workbook
C12_ExcelStageFailureReached ==
    /\ Failed
    /\ result.error = ExcelError(AttributeError)

(***************************************************************************)
(* C13.  When several columns match a role, the first in column order is   *)
(* authoritative and the later ones are ignored: the nexus totals, the tax *)
(* obligations and the summary's total_revenue are computed from the first *)
(* matching amount, jurisdiction, locality and product column only, so     *)
(* that changing the values of a later matching column changes none of     *)
(* them.                                                                   *)
(***************************************************************************)
FirstColumns ==
    UNION { IF cols = <<>> THEN {} ELSE {cols[1]} :
              cols \in {amount_cols, state_cols, city_cols, product_cols} }

\* the columns that match a role after its first match and are the first
\* match of none
LaterColumns ==
    (UNION { Range(cols) :
               cols \in {amount_cols, state_cols, city_cols, product_cols} })
    \ FirstColumns

\* the values a later column is changed to: those of the role it matches
OtherValues(col) ==
    IF col \in Range(amount_cols) THEN Range(CellValues.Amount)
    ELSE IF col \in Range(state_cols) THEN Range(CellValues.State)
    ELSE IF col \in Range(city_cols) THEN Range(CellValues.City)
    ELSE Range(CellValues.Product)

\* the dataset with every cell of col changed to v
WithValue(frame, col, v) ==
    [columns |-> frame.columns,
     rows |-> [i \in DOMAIN frame.rows |-> (col :> v) @@ frame.rows[i]]]

NexusIgnoresLaterColumns ==
    \A col \in LaterColumns : \A v \in OtherValues(col) :
        nexus_analysis = analyze_nexus_threshold(
            WithValue(df, col, v), amount_cols, state_cols, city_cols)

TaxIgnoresLaterColumns ==
    \A col \in LaterColumns : \A v \in OtherValues(col) :
        tax_obligations = calculate_tax_obligations_by_product(
            WithValue(df, col, v), amount_cols, state_cols, city_cols,
            product_cols).tax_obligations

RevenueIgnoresLaterColumns ==
    \A col \in LaterColumns : \A v \in OtherValues(col) :
        result.summary.total_revenue =
            TotalRevenue(WithValue(df, col, v), amount_cols)

C13_FirstColumnAuthoritative ==
    /\ pc = "nexus" => NexusIgnoresLaterColumns
    /\ pc = "tax" => TaxIgnoresLaterColumns
    /\ (pc = "done" /\ result.success) => RevenueIgnoresLaterColumns

\* C13, the part that holds: the analyzers read the first matching columns
\* only.
C13_AnalyzersUseFirstColumn ==
    /\ pc = "nexus" => NexusIgnoresLaterColumns
    /\ pc = "tax" => TaxIgnoresLaterColumns

\* a completed run over a dataset with a second amount column whose total
\* revenue is not the sum of the first
C13_RevenueCountsLaterColumn ==
    /\ pc = "done"
    /\ result.success
    /\ Len(amount_cols) = 2
    /\ Len(df.rows) > 0
    /\ result.summary.total_revenue # ColumnSum(df.rows, amount_cols[1])

\* runs with a second jurisdiction, locality or product column reach the tax stage
C13_LaterColumnsReached ==
    /\ pc = "tax"
    /\ tax_obligations.keys # <<>>
    /\ Len(state_cols) = 2 \/ Len(city_cols) = 2 \/ Len(product_cols) = 2

(***************************************************************************)
(* C14.  If no column matches the amount role or none matches the          *)
(* jurisdiction role, the nexus analysis and the tax obligations are       *)
(* empty, no filing requirement is generated and the run returns success;  *)
(* if only the locality or only the product role is unresolved, the run    *)
(* succeeds, with empty locality breakdowns or with every record           *)
(* classified physical_goods respectively.                                 *)
(***************************************************************************)
DatasetRead == df # NoFrame
RequiredRoleMissing == amount_cols = <<>> \/ state_cols = <<>>
OnlyLocalityUnresolved ==
    ~RequiredRoleMissing /\ city_cols = <<>> /\ product_cols # <<>>
OnlyProductUnresolved ==
    ~RequiredRoleMissing /\ city_cols # <<>> /\ product_cols = <<>>

\* the stages' outputs without a required role
EmptyWithoutRequiredRole ==
    /\ pc = "nexus" => nexus_analysis = EmptyDict
    /\ pc = "tax" => tax_obligations = EmptyDict
    /\ pc = "filing" => filing_requirements = <<>>

\* the stages' outputs without a locality column
NoLocalityBreakdown ==
    /\ pc = "nexus" =>
          \A s \in NexusStates : nexus_analysis.val[s].city_breakdown = <<>>
    /\ pc = "tax" =>
          \A s \in TaxStates : tax_obligations.val[s].city_breakdown = <<>>

\* the tax stage's output without a product column
AllPhysicalGoods ==
    pc = "tax" =>
        /\ \A i \in DOMAIN df.rows : df.rows[i].product_type = "physical_goods"
        /\ \A s \in TaxStates :
              Range(tax_obligations.val[s].product_breakdown.keys)
                  = {"physical_goods"}

C14_UnresolvedRolesDegrade ==
    DatasetRead =>
        /\ RequiredRoleMissing =>
              /\ EmptyWithoutRequiredRole
              /\ pc = "done" => result.success
        /\ OnlyLocalityUnresolved =>
              /\ NoLocalityBreakdown
              /\ pc = "done" => result.success
        /\ OnlyProductUnresolved =>
              /\ AllPhysicalGoods
              /\ pc = "done" => result.success

\* C14, the part that holds: the outputs of the stages that complete are
\* as claimed, and a run without a required role or without a product
\* column succeeds.
C14_DegradesWhenStagesComplete ==
    DatasetRead =>
        /\ RequiredRoleMissing =>
              /\ EmptyWithoutRequiredRole
              /\ pc = "done" => result.success
        /\ city_cols = <<>> => NoLocalityBreakdown
        /\ (product_cols = <<>> /\ ~RequiredRoleMissing) => AllPhysicalGoods
        /\ product_cols = <<>> => (pc = "done" => result.success)

\* completed runs of each kind: no amount column, no jurisdiction column,
\* no locality column but sales in a recognized jurisdiction, no product
\* column but sales in a locality
C14_NoAmountReached ==
    /\ pc = "done" /\ result.success
    /\ amount_cols = <<>> /\ state_cols # <<>> /\ Len(df.rows) > 0
    /\ result.nexus_analysis = EmptyDict
    /\ result.tax_obligations = EmptyDict
    /\ result.filing_requirements = <<>>
C14_NoJurisdictionReached ==
    /\ pc = "done" /\ result.success
    /\ state_cols = <<>> /\ amount_cols # <<>> /\ Len(df.rows) > 0
    /\ result.nexus_analysis = EmptyDict
    /\ result.tax_obligations = EmptyDict
C14_NoLocalityReached ==
    /\ pc = "done" /\ result.success
    /\ OnlyLocalityUnresolved
    /\ result.tax_obligations.keys # <<>>
C14_NoProductReached ==
    /\ pc = "done" /\ result.success
    /\ OnlyProductUnresolved
    /\ result.tax_obligations.keys # <<>>
\* a run with only the locality role unresolved that fails
C14_NoLocalityFails ==
    /\ pc = "done" /\ ~result.success
    /\ DatasetRead
    /\ OnlyLocalityUnresolved

(***************************************************************************)
(* C15.  With a locality column resolved, the locality breakdown of a      *)
(* recognized jurisdiction's tax obligation has one entry for every        *)
(* (locality, category) group of the jurisdiction, taxable or not, each    *)
(* with its taxability flag, its sales and both tax components; the sales  *)
(* of the entries sum to the jurisdiction's total_sales.                   *)
(***************************************************************************)
\* the group of record i: the cells it is grouped by
LocalityGroupOf(i) ==
    <<df.rows[i][state_cols[1]], df.rows[i][city_cols[1]], df.rows[i].product_type>>

\* the (locality, category) groups of a jurisdiction, and the sales of one
LocalityGroups(state_code) == {LocalityGroupOf(i) : i \in RowsOf(state_code)}
GroupSales(state_code, group) ==
    SumOver({i \in RowsOf(state_code) : LocalityGroupOf(i) = group}, RowAmount)

\* the breakdown has an entry for the group, and the entry is the group's
EntryOfGroup(state_code, group) ==
    \E k \in DOMAIN tax_obligations.val[state_code].city_breakdown :
        LET entry == tax_obligations.val[state_code].city_breakdown[k]
        IN  /\ entry.city = Title(group[2])
            /\ entry.product_type = group[3]
            /\ entry.sales = GroupSales(state_code, group)
            /\ entry.taxable = ~ListedExempt(group[3], state_code)
            /\ {"state_tax", "local_tax"} \subseteq DOMAIN entry

BreakdownSales(state_code) ==
    LET breakdown == tax_obligations.val[state_code].city_breakdown
    IN  SumOver(DOMAIN breakdown, [k \in DOMAIN breakdown |-> breakdown[k].sales])

C15_EveryGroupListed ==
    (pc = "tax" /\ city_cols # <<>>) =>
        \A s \in TaxStates :
            /\ Len(tax_obligations.val[s].city_breakdown)
                   = Cardinality(LocalityGroups(s))
            /\ \A group \in LocalityGroups(s) : EntryOfGroup(s, group)
            /\ BreakdownSales(s) = tax_obligations.val[s].total_sales

\* C15, the part that holds: the breakdown lists the taxable groups, and
\* their sales sum to the jurisdiction's taxable_sales.
TaxableLocalityGroups(state_code) ==
    {group \in LocalityGroups(state_code) : ~ListedExempt(group[3], state_code)}
C15_TaxableGroupsListed ==
    (pc = "tax" /\ city_cols # <<>>) =>
        \A s \in TaxStates :
            /\ Len(tax_obligations.val[s].city_breakdown)
                   = Cardinality(TaxableLocalityGroups(s))
            /\ \A group \in TaxableLocalityGroups(s) : EntryOfGroup(s, group)
            /\ BreakdownSales(s) = tax_obligations.val[s].taxable_sales

\* a jurisdiction with a taxable and an exempt group in one locality: the
\* breakdown has the taxable one only
C15_ExemptGroupMissing ==
    /\ pc = "tax" /\ city_cols # <<>>
    /\ \E s \in TaxStates :
          /\ Cardinality(LocalityGroups(s)) = 2
          /\ Len(tax_obligations.val[s].city_breakdown) = 1
          /\ tax_obligations.val[s].total_sales
                 # tax_obligations.val[s].taxable_sales

(***************************************************************************)
(* C16.  Sale records are immutable once parsed: no analyzer stage adds,   *)
(* removes or changes a field of the records, so that after a successful   *)
(* run the dataset, and with it the preview of its first 10 rows, has the  *)
(* fields and values it had before the nexus and tax stages ran, also when *)
(* the input has a field named product_type of its own.                    *)
(***************************************************************************)
C16_RecordsImmutable == [][pc # "idle" => df'.rows = df.rows]_vars

\* C16, the part that holds: the nexus, compliance and filing stages and
\* the return leave the records as they are.
C16_OtherStagesLeaveRecords == [][pc \notin {"idle", "nexus"} => df'.rows = df.rows]_vars

\* a successful run whose preview has a field the upload did not have
C16_FieldAddedToPreview ==
    /\ pc = "done" /\ result.success
    /\ "product_type" \notin Range(product_cols)
    /\ result.preview # <<>>
    /\ \A k \in DOMAIN result.preview : "product_type" \in DOMAIN result.preview[k]

\* a successful run over an upload with a product_type field of its own,
\* whose preview has a value in that field that no record of the upload had
C16_FieldOverwrittenInPreview ==
    /\ pc = "done" /\ result.success
    /\ "product_type" \in Range(product_cols)
    /\ \E k \in DOMAIN result.preview :
          result.preview[k].product_type \notin Range(CellValues.product_type)

(***************************************************************************)
(* C17.  For any input dataset the nexus analysis and the tax obligations  *)
(* of one run have the same set of jurisdiction keys, and for every such   *)
(* jurisdiction the total_sales of the nexus analysis equals the           *)
(* total_sales of the tax obligations.                                     *)
(***************************************************************************)
SameTotals ==
    \A s \in NexusStates \cap TaxStates :
        nexus_analysis.val[s].total_sales = tax_obligations.val[s].total_sales

C17_NexusAndTaxAgree ==
    pc = "tax" =>
        /\ NexusStates = TaxStates
        /\ SameTotals

\* C17, the part that holds: the keys are the same, in the same order, and
\* with a locality column the totals are equal.
C17_SameKeys ==
    pc = "tax" =>
        /\ nexus_analysis.keys = tax_obligations.keys
        /\ city_cols # <<>> => SameTotals

\* a run in which the two totals of a jurisdiction differ
C17_TotalsDiffer ==
    /\ pc = "tax"
    /\ \E s \in NexusStates \cap TaxStates :
          /\ nexus_analysis.val[s].total_sales > 0
          /\ nexus_analysis.val[s].total_sales
                 < tax_obligations.val[s].total_sales

(***************************************************************************)
(* C18.  For every jurisdiction of the tax obligation output, the sum of   *)
(* tax_owed over the entries of its per-category breakdown equals its      *)
(* total_tax_owed, which is state_tax_owed + local_tax_owed, and the sums  *)
(* of the categories' total_sales and taxable_sales equal the              *)
(* jurisdiction's total_sales and taxable_sales.  (Amounts are exact here: *)
(* the program adds the same terms in floating point, in another order.)   *)
(***************************************************************************)
CategoryTaxOwedSum(state_code) ==
    LET breakdown == tax_obligations.val[state_code].product_breakdown
    IN  SumOver(Range(breakdown.keys),
                [c \in Range(breakdown.keys) |-> breakdown.val[c].tax_owed])
CategoryTotalSalesSum(state_code) ==
    LET breakdown == tax_obligations.val[state_code].product_breakdown
    IN  SumOver(Range(breakdown.keys),
                [c \in Range(breakdown.keys) |-> breakdown.val[c].total_sales])

C18_TwoTaxedCategoriesReached ==
    /\ pc = "tax"
    /\ \E s \in TaxStates :
          LET e == tax_obligations.val[s]
          IN  /\ Len(e.product_breakdown.keys) = 2
              /\ \A c \in Range(e.product_breakdown.keys) :
                    e.product_breakdown.val[c].tax_owed > 0
              /\ CategoryTaxOwedSum(s) = e.total_tax_owed

====
